---- MODULE Spec2Model ----
(***************************************************************************)
(* Model of the `popper run` command (cli/popper/commands/cmd_run.py):     *)
(* the CI directive scanner (parse_commit_message), the re-parsing of the  *)
(* directives (get_args), the invocation loop (cli,                        *)
(* prepare_workflow_execution) and the pre/main/post/on-failure sequencing *)
(* of one run (run_workflow).                                              *)
(*                                                                         *)
(* Text is modelled as a sequence of tokens.  A token is one of the fixed  *)
(* strings the code looks for ("Merge", "popper:run[", "]", " ", newline)  *)
(* or a word fragment that contains none of them.  A Python string is the  *)
(* concatenation of its tokens.                                            *)
(***************************************************************************)
EXTENDS Integers, Sequences, FiniteSets, TLC

VARIABLES
    pc,          \* position of the command: which step runs next
    argv,        \* the words of the real command line (input)
    env,         \* os.environ and sys.version_info, as the command reads them
    repo,        \* what the collaborators return: head commit, workflow files
    kwargs,      \* cli's kwargs dict (line 115), updated per directive
    instances,   \* return value of parse_commit_message (line 145)
    mode,        \* branch cli took: "directives", "recursive" or "single"
    todo,        \* directives get_args has not yielded yet (generator state)
    pkwargs,     \* prepare_workflow_execution's kwargs dict (line 159)
    files,       \* workflow files the recursive loop has not visited yet
    rw,          \* run_workflow's locals: kwargs, on_failure, wfile, pending exit
    level,       \* the level given to log.setLevel (line 169)
    interrupt,   \* popper.cli.interrupt_params['parallel'] and its write count
    runs,        \* history: one record per run_workflow call
    calls,       \* history: one record per engine invocation (WorkflowRunner.run)
    exit_code    \* exit status of the command once pc = "done"

vars == <<pc, argv, env, repo, kwargs, instances, mode, todo, pkwargs, files, rw,
          level, interrupt, runs, calls, exit_code>>

(***************************************************************************)
(* Bounds of the explored inputs.                                          *)
(***************************************************************************)
MaxDirectives == 2   \* directives in one curated commit message
MaxFiles == 2        \* workflow files found by recursive discovery
MaxMsgLen == 3       \* tokens in an exhaustively enumerated commit message

(***************************************************************************)
(* Python values.                                                          *)
(***************************************************************************)
None == "None"                      \* Python's None; no input word equals it
Truthy(s) == s # None /\ s # ""     \* truth value of an optional string

MergeTok == "Merge"                 \* the substring tested at line 255
Marker == "popper:run["             \* the substring tested at line 260
Close == "]"
Space == " "
Newline == "\n"

(***************************************************************************)
(* Collaborators outside this file.  log.fail reports the message and      *)
(* leaves the process with a non-zero status; click reports a usage error  *)
(* with status 2.                                                          *)
(***************************************************************************)
FailExit == 1
UsageExit == 2
ExitCodes == {0, 1, 2}              \* codes an engine run may exit with
Returned == [exit |-> FALSE, code |-> 0]
Exited(c) == [exit |-> TRUE, code |-> c]
EngineOutcomes == {Returned} \cup {Exited(c) : c \in ExitCodes}

Min(S) == CHOOSE x \in S : \A y \in S : x <= y
Contains(msg, tok) == \E i \in 1..Len(msg) : msg[i] = tok   \* `tok in msg`

(***************************************************************************)
(* re.findall(r'popper:run\[(.+?)\]', msg), lines 263-264: scanning from   *)
(* the left, a match is the marker, then the shortest non-empty run of     *)
(* characters other than newline that is followed by "]"; the scan         *)
(* resumes after the match.                                                *)
(***************************************************************************)
RECURSIVE FindFrom(_, _)
FindFrom(msg, i) ==
    IF i > Len(msg) THEN <<>>
    ELSE IF msg[i] # Marker THEN FindFrom(msg, i + 1)
    ELSE LET ends == {j \in (i + 2)..Len(msg) :
                        /\ msg[j] = Close
                        /\ \A t \in (i + 1)..(j - 1) : msg[t] # Newline}
         IN  IF ends = {} THEN FindFrom(msg, i + 1)
             ELSE <<SubSeq(msg, i + 1, Min(ends) - 1)>>
                      \o FindFrom(msg, Min(ends) + 1)

\* mutant: the matches are returned last first
findallLastFirst(msg) ==
    [i \in 1..Len(FindFrom(msg, 1)) |->
        FindFrom(msg, 1)[Len(FindFrom(msg, 1)) + 1 - i]]

findall(msg) == FindFrom(msg, 1)

(***************************************************************************)
(* parse_commit_message, lines 247-265.  A head commit is a record         *)
(* [present, message, parents]; parents is a sequence of messages.         *)
(***************************************************************************)
NoCommit == [present |-> FALSE, message |-> <<>>, parents |-> <<>>]
Commit(m, ps) == [present |-> TRUE, message |-> m, parents |-> ps]

\* mutant: the first parent's message is read instead of the second's
ScannedMessageFirstParent(head) ==
    IF Contains(head.message, MergeTok) /\ Len(head.parents) = 2
    THEN head.parents[1]
    ELSE head.message

\* mutant: the second parent is read whenever there are at least two parents
ScannedMessageSeveralParents(head) ==
    IF Contains(head.message, MergeTok) /\ Len(head.parents) >= 2
    THEN head.parents[2]
    ELSE head.message

\* lines 254-258: the message that is scanned
ScannedMessage(head) ==
    IF Contains(head.message, MergeTok) /\ Len(head.parents) = 2
    THEN head.parents[2]
    ELSE head.message

\* the return value: none = TRUE is Python's None, otherwise the list
NoInstances == [none |-> TRUE, list |-> <<>>]
parse_commit_message(head) ==
    IF ~head.present THEN NoInstances
    ELSE IF ~Contains(ScannedMessage(head), Marker) THEN NoInstances
    ELSE [none |-> FALSE, list |-> findall(ScannedMessage(head))]

\* truth value of the return value, as tested at line 146
InstancesTruthy(r) == ~r.none /\ r.list # <<>>

(***************************************************************************)
(* The command's parameters, lines 15-113, and click's parsing of a word   *)
(* list into them (cli.make_context(...).params, line 273; the same        *)
(* grammar parses the real command line).                                  *)
(***************************************************************************)
GitRoot == "/repo"                  \* popper.scm.get_git_root_folder()
Runtimes == {"docker", "singularity"}
Defaults ==
    [action |-> None, wfile |-> None, debug |-> FALSE, dry_run |-> FALSE,
     log_file |-> None, on_failure |-> None, parallel |-> FALSE,
     quiet |-> FALSE, reuse |-> FALSE, runtime |-> "docker", skip |-> <<>>,
     skip_clone |-> FALSE, skip_pull |-> FALSE, with_dependencies |-> FALSE,
     workspace |-> GitRoot]

FlagOption ==
    [w \in {"--debug", "--dry-run", "--parallel", "--quiet", "--reuse",
            "--skip-clone", "--skip-pull", "--with-dependencies"} |->
        CASE w = "--debug" -> "debug"
          [] w = "--dry-run" -> "dry_run"
          [] w = "--parallel" -> "parallel"
          [] w = "--quiet" -> "quiet"
          [] w = "--reuse" -> "reuse"
          [] w = "--skip-clone" -> "skip_clone"
          [] w = "--skip-pull" -> "skip_pull"
          [] w = "--with-dependencies" -> "with_dependencies"]

ValueOption ==
    [w \in {"--wfile", "--log-file", "--on-failure", "--runtime", "--skip",
            "--workspace"} |->
        CASE w = "--wfile" -> "wfile"
          [] w = "--log-file" -> "log_file"
          [] w = "--on-failure" -> "on_failure"
          [] w = "--runtime" -> "runtime"
          [] w = "--skip" -> "skip"
          [] w = "--workspace" -> "workspace"]

\* make_context does not return: click reports a usage error and the
\* command exits with status 2, or --help prints the help and exits with 0
UsageError == [ok |-> FALSE, code |-> UsageExit, params |-> Defaults]
HelpExit == [ok |-> FALSE, code |-> 0, params |-> Defaults]
HelpOption == "--help"              \* the option click adds to every command

\* click's reading of one word: a word of more than one character that
\* starts with "-" is an option; `name=value` carries the option's value
IsOption(w) == Len(w) > 1 /\ SubSeq(w, 1, 1) = "-"
EqualsAt(w) == {i \in 1..Len(w) : SubSeq(w, i, i) = "="}
OptionName(w) ==
    IF EqualsAt(w) = {} THEN w ELSE SubSeq(w, 1, Min(EqualsAt(w)) - 1)
ExplicitValue(w) == SubSeq(w, Min(EqualsAt(w)) + 1, Len(w))

\* the parser's state: the values stored so far (a repeated option keeps its
\* last value), the number of positional words (more than one is an error),
\* --help was given
ParseStart == [params |-> Defaults, given |-> 0, help |-> FALSE]

\* the result once all words are read: --help is handled first, then the
\* stored --runtime value is checked against its choices, then the
\* unexpected extra arguments are rejected
ParseEnd(st) ==
    IF st.help THEN HelpExit
    ELSE IF st.params.runtime \notin Runtimes \/ st.given > 1 THEN UsageError
    ELSE [ok |-> TRUE, code |-> 0, params |-> st.params]

\* words: the words left; st: the parser's state; options: "--" has not
\* been read yet, so words that start with "-" are options.  An option
\* that is not declared, a flag with a value and an option without its
\* argument end the parsing at once.
RECURSIVE ParseFrom(_, _, _)
ParseFrom(words, st, options) ==
    IF words = <<>> THEN ParseEnd(st)
    ELSE LET w == Head(words)
             rest == Tail(words)
             name == OptionName(w)
             explicit == EqualsAt(w) # {}
             args == IF explicit THEN <<ExplicitValue(w)>> \o rest ELSE rest
         IN  IF options /\ w = "--" THEN ParseFrom(rest, st, FALSE)
             ELSE IF options /\ IsOption(w)
             THEN IF name = HelpOption
                  THEN IF explicit THEN UsageError
                       ELSE ParseFrom(rest, [st EXCEPT !.help = TRUE], TRUE)
                  ELSE IF name \in DOMAIN FlagOption
                  THEN IF explicit THEN UsageError
                       ELSE ParseFrom(rest,
                                [st EXCEPT !.params[FlagOption[name]] = TRUE],
                                TRUE)
                  ELSE IF name \in DOMAIN ValueOption
                  THEN IF args = <<>> THEN UsageError
                       ELSE IF name = "--skip"
                       THEN ParseFrom(Tail(args),
                                [st EXCEPT !.params.skip = Append(@, Head(args))],
                                TRUE)
                       ELSE ParseFrom(Tail(args),
                                [st EXCEPT !.params[ValueOption[name]] = Head(args)],
                                TRUE)
                  ELSE UsageError
             ELSE IF st.given = 0
             THEN ParseFrom(rest, [st EXCEPT !.params.action = w, !.given = 1],
                            options)
             ELSE ParseFrom(rest, [st EXCEPT !.given = 2], options)

make_context(args) == ParseFrom(args, ParseStart, TRUE)

\* args.split(" "), line 272, on a token sequence: the words between spaces
RECURSIVE SplitFrom(_, _, _)
SplitFrom(toks, cur, out) ==
    IF toks = <<>> THEN Append(out, cur)
    ELSE IF Head(toks) = Space THEN SplitFrom(Tail(toks), "", Append(out, cur))
    ELSE SplitFrom(Tail(toks), cur \o Head(toks), out)

split(toks) == SplitFrom(toks, "", <<>>)

\* one step of the generator get_args, lines 271-274
get_args(payload) == make_context(split(payload))

\* mutant: a value is replaced only by a value that differs from its default
updateWhereGiven(d, a) ==
    [k \in DOMAIN d \cup DOMAIN a |->
        IF k \in DOMAIN a /\ (k \notin DOMAIN d \/ a[k] # Defaults[k])
        THEN a[k] ELSE d[k]]

\* dict.update, line 148
update(d, a) ==
    [k \in DOMAIN d \cup DOMAIN a |-> IF k \in DOMAIN a THEN a[k] ELSE d[k]]

\* dict.pop(key), lines 174-176 and 217-218: the dict without the key
pop(d, key) == [k \in DOMAIN d \ {key} |-> d[k]]

(***************************************************************************)
(* Collaborators of run_workflow.  repo.unloadable is the set of workflow  *)
(* paths that are missing or that the parser rejects; both end in          *)
(* log.fail.  find_default_wfile resolves no path to the default location. *)
(***************************************************************************)
DefaultWfile == ".github/main.workflow"
find_default_wfile(wfile) == IF Truthy(wfile) THEN wfile ELSE DefaultWfile
Loads(path) == path \notin repo.unloadable      \* Workflow(path) succeeds

\* mutant: the file is stored only when no wfile is set yet
WithWfileSetDefault(kw, wfile) ==
    IF kw.wfile = None THEN [kw EXCEPT !.wfile = wfile] ELSE kw

\* line 181: kwargs['wfile'] = wfile
WithWfile(kw, wfile) == [kw EXCEPT !.wfile = wfile]

\* mutant: quiet takes precedence over debug
LogLevelQuietWins(kw) ==
    IF kw.quiet THEN "INFO" ELSE IF kw.debug THEN "DEBUG" ELSE "ACTION_INFO"

\* lines 163-168: the level given to log.setLevel
LogLevel(kw) ==
    IF kw.debug THEN "DEBUG" ELSE IF kw.quiet THEN "INFO" ELSE "ACTION_INFO"

\* mutant: the check of --skip against the action argument is missing
InvalidFlagsWithoutSkipCheck(kw) == kw.with_dependencies /\ ~Truthy(kw.action)

\* lines 209-215: the flag combinations run_workflow rejects
InvalidFlags(kw) ==
    \/ kw.with_dependencies /\ ~Truthy(kw.action)
    \/ kw.skip # <<>> /\ Truthy(kw.action)

\* lines 203-205
ParallelUnsupported(kw) == kw.parallel /\ env.python2

\* mutant: the handler recovers only from exit status 1
RecoversOnlyStatusOne(code, on_failure) == code = 1 /\ Truthy(on_failure)

\* line 234: the condition under which the fallback runs
Recovers(code, on_failure) == code # 0 /\ Truthy(on_failure)

\* lines 235-236: the arguments of the fallback run
FallbackKwargs(kw, on_failure) ==
    [kw EXCEPT !.skip = <<>>, !.action = on_failure]

\* mutant: the record is written by the first run only
SaveInterruptOnce(kw) ==
    IF interrupt.writes = 0
    THEN [parallel |-> kw.parallel, writes |-> 1]
    ELSE interrupt

\* line 201: popper.cli.interrupt_params['parallel'] = kwargs['parallel']
SaveInterrupt(kw) ==
    [parallel |-> kw.parallel, writes |-> interrupt.writes + 1]

NoRun == [kwargs |-> Defaults, on_failure |-> None, wfile |-> None, code |-> 0]

\* one engine invocation, WorkflowRunner(Workflow(path)).run(**kw)
Call(stage, path, kw, outcome) ==
    [run |-> Len(runs), stage |-> stage, runner |-> path, kwargs |-> kw,
     outcome |-> outcome]

\* mutant: a SystemExit that leaves run_workflow ends the run only, and the
\* loop over the directives goes on
EndsRunOnly(code, how) ==
    /\ IF how = "exited" /\ mode = "directives" /\ todo # <<>>
       THEN pc' = "get_args" /\ exit_code' = exit_code
       ELSE pc' = "done" /\ exit_code' = code
    /\ runs' = IF runs # <<>> /\ runs[Len(runs)].outcome = "running"
               THEN [runs EXCEPT ![Len(runs)].outcome = how,
                                 ![Len(runs)].code = code]
               ELSE runs

\* the command ends: SystemExit reaches the top, or cli returns
Ends(code, how) ==
    /\ pc' = "done"
    /\ exit_code' = code
    /\ runs' = IF runs # <<>> /\ runs[Len(runs)].outcome = "running"
               THEN [runs EXCEPT ![Len(runs)].outcome = how,
                                 ![Len(runs)].code = code]
               ELSE runs

(***************************************************************************)
(* cli, lines 142-156.                                                     *)
(***************************************************************************)
cli ==
    /\ pc = "cli"
    /\ IF env.CI
       THEN /\ instances' = parse_commit_message(repo.head)
            /\ IF InstancesTruthy(instances')
               THEN /\ mode' = "directives"
                    /\ todo' = instances'.list
                    /\ pc' = "get_args"
               ELSE /\ mode' = "recursive"
                    /\ pc' = "prepare"
                    /\ todo' = todo
       ELSE /\ mode' = "single"
            /\ pc' = "prepare"
            /\ UNCHANGED <<instances, todo>>
    /\ UNCHANGED <<argv, env, repo, kwargs, pkwargs, files, rw, level,
                   interrupt, runs, calls, exit_code>>

(***************************************************************************)
(* The loop head of line 147: the generator get_args (lines 271-274)       *)
(* yields the parameters of the next directive, and line 148 updates       *)
(* kwargs with them; a payload that click rejects, or that asks for the   *)
(* help, ends the command.                                                 *)
(***************************************************************************)
next_directive ==
    /\ pc = "get_args"
    /\ IF todo = <<>>
       THEN /\ Ends(0, "ok")
            /\ UNCHANGED <<kwargs, todo>>
       ELSE IF ~get_args(Head(todo)).ok
       THEN /\ Ends(get_args(Head(todo)).code, "usage")
            /\ UNCHANGED <<kwargs, todo>>
       ELSE /\ kwargs' = update(kwargs, get_args(Head(todo)).params)
            /\ todo' = Tail(todo)
            /\ pc' = "prepare"
            /\ UNCHANGED <<runs, exit_code>>
    /\ UNCHANGED <<argv, env, repo, instances, mode, pkwargs, files, rw, level,
                   interrupt, calls>>

(***************************************************************************)
(* prepare_workflow_execution, lines 163-179.                              *)
(***************************************************************************)
prepare_workflow_execution ==
    /\ pc = "prepare"
    /\ level' = LogLevel(kwargs)
    /\ pkwargs' = pop(pop(pop(kwargs, "quiet"), "debug"), "log_file")
    /\ IF mode = "recursive"
       THEN /\ files' = repo.found
            /\ pc' = "loop"
            /\ rw' = rw
       ELSE /\ rw' = [NoRun EXCEPT !.kwargs = pkwargs']
            /\ pc' = "run_workflow"
            /\ files' = files
    /\ UNCHANGED <<argv, env, repo, kwargs, instances, mode, todo, interrupt,
                   runs, calls, exit_code>>

(***************************************************************************)
(* The loop of lines 180-182 over the discovered workflow files.           *)
(***************************************************************************)
recursive_loop ==
    /\ pc = "loop"
    /\ IF files = <<>>
       THEN /\ Ends(0, "ok")
            /\ UNCHANGED <<pkwargs, files, rw>>
       ELSE /\ pkwargs' = WithWfile(pkwargs, Head(files))
            /\ files' = Tail(files)
            /\ rw' = [NoRun EXCEPT !.kwargs = pkwargs']
            /\ pc' = "run_workflow"
            /\ UNCHANGED <<runs, exit_code>>
    /\ UNCHANGED <<argv, env, repo, kwargs, instances, mode, todo, level,
                   interrupt, calls>>

(***************************************************************************)
(* run_workflow up to the guarded block, lines 189-218: resolve and load   *)
(* the workflow, record the parallel flag for the signal handler, check    *)
(* the flags, pop on_failure and wfile.  Every log.fail ends the command.  *)
(***************************************************************************)
run_workflow ==
    /\ pc = "run_workflow"
    /\ LET kw == [rw.kwargs EXCEPT !.wfile = find_default_wfile(@)]
           started == Append(runs, [config |-> rw.kwargs,
                                    outcome |-> "running", code |-> 0])
           failed == [started EXCEPT ![Len(started)].outcome = "validation",
                                     ![Len(started)].code = FailExit]
       IN  IF ~Loads(kw.wfile)
           THEN /\ pc' = "done"
                /\ exit_code' = FailExit
                /\ runs' = failed
                /\ UNCHANGED <<rw, interrupt>>
           ELSE /\ interrupt' = SaveInterrupt(kw)
                /\ IF ParallelUnsupported(kw) \/ InvalidFlags(kw)
                   THEN /\ pc' = "done"
                        /\ exit_code' = FailExit
                        /\ runs' = failed
                        /\ rw' = rw
                   ELSE /\ rw' = [kwargs |-> pop(pop(kw, "on_failure"), "wfile"),
                                  on_failure |-> kw.on_failure,
                                  wfile |-> kw.wfile,
                                  code |-> 0]
                        /\ runs' = started
                        /\ pc' = "pre"
                        /\ exit_code' = exit_code
    /\ UNCHANGED <<argv, env, repo, kwargs, instances, mode, todo, pkwargs,
                   files, level, calls>>

\* mutant: every failure of a stage is reported with log.fail's status
RaiseFailExit(code) ==
    /\ rw' = [rw EXCEPT !.code = FailExit]
    /\ pc' = "except"

\* SystemExit(code) raised inside the guarded block, lines 220-231
Raise(code) ==
    /\ rw' = [rw EXCEPT !.code = code]
    /\ pc' = "except"

\* mutant: an exit of the fallback run re-enters the handler
PropagateCaught(code, kw) ==
    /\ rw' = [rw EXCEPT !.kwargs = kw, !.code = code]
    /\ pc' = "except"
    /\ UNCHANGED <<runs, exit_code>>

\* SystemExit(code) raised by the fallback run, line 237, inside the handler:
\* nothing catches it
Propagate(code, kw) ==
    /\ rw' = [rw EXCEPT !.kwargs = kw]
    /\ Ends(code, "exited")

\* mutant: an exit of the pre-workflow's run is ignored
pre_stageIgnoringExit ==
    /\ pc = "pre"
    /\ IF ~Truthy(env.pre_wfile)
       THEN /\ pc' = "main"
            /\ UNCHANGED <<rw, calls>>
       ELSE IF ~Loads(env.pre_wfile)
       THEN /\ Raise(FailExit)
            /\ calls' = calls
       ELSE \E o \in EngineOutcomes :
            /\ calls' = Append(calls, Call("pre", env.pre_wfile, rw.kwargs, o))
            /\ pc' = "main"
            /\ rw' = rw
    /\ UNCHANGED <<argv, env, repo, kwargs, instances, mode, todo, pkwargs,
                   files, level, interrupt, runs, exit_code>>

(***************************************************************************)
(* The pre-stage, lines 221-224.                                           *)
(***************************************************************************)
pre_stage ==
    /\ pc = "pre"
    /\ IF ~Truthy(env.pre_wfile)
       THEN /\ pc' = "main"
            /\ UNCHANGED <<rw, calls>>
       ELSE IF ~Loads(env.pre_wfile)
       THEN /\ Raise(FailExit)
            /\ calls' = calls
       ELSE \E o \in EngineOutcomes :
            /\ calls' = Append(calls, Call("pre", env.pre_wfile, rw.kwargs, o))
            /\ IF o.exit THEN Raise(o.code)
                         ELSE pc' = "main" /\ rw' = rw
    /\ UNCHANGED <<argv, env, repo, kwargs, instances, mode, todo, pkwargs,
                   files, level, interrupt, runs, exit_code>>

\* mutant: the post-stage follows the main stage whatever its outcome
main_stageThenPost ==
    /\ pc = "main"
    /\ \E o \in EngineOutcomes :
            /\ calls' = Append(calls, Call("main", rw.wfile, rw.kwargs, o))
            /\ pc' = "post"
            /\ rw' = rw
    /\ UNCHANGED <<argv, env, repo, kwargs, instances, mode, todo, pkwargs,
                   files, level, interrupt, runs, exit_code>>

(***************************************************************************)
(* The main stage, line 226.                                               *)
(***************************************************************************)
main_stage ==
    /\ pc = "main"
    /\ \E o \in EngineOutcomes :
            /\ calls' = Append(calls, Call("main", rw.wfile, rw.kwargs, o))
            /\ IF o.exit THEN Raise(o.code)
                         ELSE pc' = "post" /\ rw' = rw
    /\ UNCHANGED <<argv, env, repo, kwargs, instances, mode, todo, pkwargs,
                   files, level, interrupt, runs, exit_code>>

(***************************************************************************)
(* The post-stage, lines 228-231.                                          *)
(***************************************************************************)
post_stage ==
    /\ pc = "post"
    /\ IF ~Truthy(env.post_wfile)
       THEN /\ pc' = "finish"
            /\ UNCHANGED <<rw, calls>>
       ELSE IF ~Loads(env.post_wfile)
       THEN /\ Raise(FailExit)
            /\ calls' = calls
       ELSE \E o \in EngineOutcomes :
            /\ calls' = Append(calls, Call("post", env.post_wfile, rw.kwargs, o))
            /\ IF o.exit THEN Raise(o.code)
                         ELSE pc' = "finish" /\ rw' = rw
    /\ UNCHANGED <<argv, env, repo, kwargs, instances, mode, todo, pkwargs,
                   files, level, interrupt, runs, exit_code>>

(***************************************************************************)
(* The handler of SystemExit, lines 233-239: run the on-failure action on  *)
(* the main workflow's runner, or re-raise.  An exit raised by the         *)
(* fallback run leaves run_workflow.                                       *)
(***************************************************************************)
on_system_exit ==
    /\ pc = "except"
    /\ IF Recovers(rw.code, rw.on_failure)
       THEN \E o \in EngineOutcomes :
            LET kw == FallbackKwargs(rw.kwargs, rw.on_failure)
            IN  /\ calls' = Append(calls, Call("fallback", rw.wfile, kw, o))
                /\ IF o.exit
                   THEN Propagate(o.code, kw)
                   ELSE /\ rw' = [rw EXCEPT !.kwargs = kw]
                        /\ pc' = "finish"
                        /\ UNCHANGED <<runs, exit_code>>
       ELSE /\ Ends(rw.code, "exited")
            /\ UNCHANGED <<rw, calls>>
    /\ UNCHANGED <<argv, env, repo, kwargs, instances, mode, todo, pkwargs,
                   files, level, interrupt>>

(***************************************************************************)
(* Lines 241-244: the run finished; control returns to the caller's loop.  *)
(***************************************************************************)
finish ==
    /\ pc = "finish"
    /\ runs' = [runs EXCEPT ![Len(runs)].outcome = "ok"]
    /\ IF mode = "directives" THEN pc' = "get_args" /\ exit_code' = exit_code
       ELSE IF mode = "recursive" THEN pc' = "loop" /\ exit_code' = exit_code
       ELSE pc' = "done" /\ exit_code' = 0
    /\ UNCHANGED <<argv, env, repo, kwargs, instances, mode, todo, pkwargs,
                   files, rw, level, interrupt, calls>>

Next ==
    \/ cli
    \/ next_directive
    \/ prepare_workflow_execution
    \/ recursive_loop
    \/ run_workflow
    \/ pre_stage
    \/ main_stage
    \/ post_stage
    \/ on_system_exit
    \/ finish

(***************************************************************************)
(* The inputs explored.  Command lines and directive payloads are built    *)
(* from the options of lines 15-113.                                       *)
(***************************************************************************)
RECURSIVE Flatten(_)
Flatten(ss) == IF ss = <<>> THEN <<>> ELSE Head(ss) \o Flatten(Tail(ss))

\* all sequences over S of length at most n
RECURSIVE Strings(_, _)
Strings(S, n) ==
    IF n = 0 THEN {<<>>}
    ELSE {<<>>} \cup {<<x>> \o l : x \in S, l \in Strings(S, n - 1)}

\* the sequences over S of length at most n without repetition
Lists(S, n) ==
    {l \in Strings(S, n) : \A i, j \in 1..Len(l) : l[i] = l[j] => i = j}

\* the options run_workflow inspects
CoreItems ==
    << <<"build">>, <<"--with-dependencies">>, <<"--skip", "lint">>,
       <<"--on-failure", "cleanup">>, <<"--parallel">> >>
\* the options that are logged or handed on to the engine
OtherItems ==
    { <<>>, <<"--dry-run">>, <<"--runtime", "singularity">>, <<"--reuse">>,
      <<"--skip-clone">>, <<"--skip-pull">>, <<"--workspace", "/ws">>,
      <<"--wfile", "a.workflow">>, <<"--quiet">>, <<"--debug">>,
      <<"--debug", "--quiet">>, <<"--log-file", "run.log">> }

CoreArgvs ==
    {Flatten([i \in 1..Len(CoreItems) |-> IF i \in S THEN CoreItems[i] ELSE <<>>])
        : S \in SUBSET (1..Len(CoreItems))}
LocalArgvs == {c \o o : c \in CoreArgvs, o \in OtherItems}
\* command lines of a CI job that falls back to recursive discovery
RecursiveArgvs ==
    {Flatten([i \in 1..Len(CoreItems) |-> IF i \in S THEN CoreItems[i] ELSE <<>>])
        : S \in SUBSET {1, 3, 4}}

\* command lines of a CI job whose commit message carries directives
BaseArgvs ==
    { <<>>, <<"--dry-run", "--runtime", "singularity">>,
      <<"--on-failure", "cleanup", "--wfile", "a.workflow">> }

\* directive payloads, as token sequences
Payloads ==
    { <<"test">>,
      <<"--wfile=b.workflow", Space, "build">>,
      <<"--on-failure", Space, "cleanup", Space, "--parallel">>,
      <<"--skip", Space, "lint", Space, "build">>,
      <<"--wfile">>,
      <<"--help">> }

\* a commit message carrying the payloads ps, in this order
RECURSIVE Directives(_)
Directives(ps) ==
    IF ps = <<>> THEN <<"fix">>
    ELSE <<"run", Space, Marker>> \o Head(ps) \o <<Close, Newline>>
             \o Directives(Tail(ps))

DirectiveMessages == {Directives(ps) : ps \in Strings(Payloads, MaxDirectives) \ {<<>>}}
DirectiveHeads ==
    {Commit(m, <<>>) : m \in DirectiveMessages}
        \cup {Commit(<<MergeTok, Space, "pr">>, <<<<"base">>, m>>)
                : m \in DirectiveMessages}

\* head commits without a directive
PlainHeads ==
    {NoCommit, Commit(<<"fix">>, <<>>), Commit(<<Marker, Close>>, <<>>)}

WorkflowFiles == {"a.workflow", "b.workflow", "c.workflow"}
PreWfile == "pre.workflow"
PostWfile == "post.workflow"

\* exhaustively enumerated head commits, for the scanner
ScanTokens == {MergeTok, Marker, Close, Newline, "x"}
ScanMessages == Strings(ScanTokens, MaxMsgLen)
ParentMessages == Strings({Marker, Close, "x"}, MaxMsgLen)
ScanParents ==
    {<<>>} \cup {<<p>> : p \in ParentMessages}
        \cup {<<<<"x">>, p>> : p \in ParentMessages}
        \cup {<<<<"x">>, p, <<"x">>>> : p \in ParentMessages}

Start ==
    /\ pc = "cli"
    /\ kwargs = make_context(argv).params
    /\ instances = NoInstances
    /\ mode = "none"
    /\ todo = <<>>
    /\ pkwargs = pop(pop(pop(Defaults, "quiet"), "debug"), "log_file")
    /\ files = <<>>
    /\ rw = NoRun
    /\ level = "NOTSET"
    /\ interrupt = [parallel |-> FALSE, writes |-> 0]
    /\ runs = <<>>
    /\ calls = <<>>
    /\ exit_code = 0

Env(ci, pre, post, py2) ==
    [CI |-> ci, pre_wfile |-> pre, post_wfile |-> post, python2 |-> py2]
Repo(head, found, bad) == [head |-> head, found |-> found, unloadable |-> bad]

\* a run outside CI
InitLocal ==
    /\ argv \in LocalArgvs
    /\ env \in {Env(FALSE, pre, post, py2) : pre \in {None, PreWfile},
                    post \in {None, PostWfile}, py2 \in BOOLEAN}
    /\ repo \in {Repo(NoCommit, <<>>, bad) :
                    bad \in {{}, {DefaultWfile}, {"a.workflow"}, {PreWfile},
                             {PostWfile}}}

\* a CI job whose head commit carries directives
InitDirectives ==
    /\ argv \in BaseArgvs
    /\ env \in {Env(TRUE, None, None, FALSE), Env(TRUE, PreWfile, PostWfile, FALSE)}
    /\ repo \in {Repo(h, <<"a.workflow">>, bad) :
                    h \in DirectiveHeads, bad \in {{}, {"b.workflow"}}}

\* a CI job whose head commit carries none
InitRecursive ==
    /\ argv \in RecursiveArgvs
    /\ env \in {Env(TRUE, None, None, FALSE), Env(TRUE, PreWfile, PostWfile, FALSE)}
    /\ repo \in {Repo(h, found, bad) :
                    h \in PlainHeads, found \in Lists(WorkflowFiles, MaxFiles),
                    bad \in {{}, {"b.workflow"}}}

Init == (InitLocal \/ InitDirectives \/ InitRecursive) /\ Start

Spec == Init /\ [][Next]_vars

(***************************************************************************)
(* The scanner alone: cli's branch on every small head commit.             *)
(***************************************************************************)
InitScan ==
    /\ argv = <<>>
    /\ env = Env(TRUE, None, None, FALSE)
    /\ \/ repo = Repo(NoCommit, <<>>, {})
       \/ \E m \in ScanMessages, ps \in ScanParents :
            repo = Repo(Commit(m, ps), <<>>, {})
    /\ Start

NextScan == cli

SpecScan == InitScan /\ [][NextScan]_vars

(***************************************************************************)
(* Properties.                                                             *)
(***************************************************************************)
RunIds == 1..Len(runs)
CallIds == 1..Len(calls)
CallsOf(r) == {i \in CallIds : calls[i].run = r}
FallbacksOf(r) == {i \in CallIds : calls[i].run = r /\ calls[i].stage = "fallback"}
\* call i is a pre-, main- or post-stage run that exited with a non-zero status
StageFailure(i) ==
    /\ calls[i].stage \in {"pre", "main", "post"}
    /\ calls[i].outcome.exit
    /\ calls[i].outcome.code # 0
\* run r has an on-failure action configured
Configured(r) == runs[r].config.on_failure \notin {None, ""}

\* C1: with an on-failure action configured, a pre-, main- or post-stage run
\* that exits non-zero is followed by the fallback run, and the run's outcome
\* is the fallback's: success when it returns, its exit status when it exits.
C1_FallbackDecidesOutcome ==
    \A i \in CallIds :
        LET r == calls[i].run
        IN  (StageFailure(i) /\ Configured(r)) =>
                \/ FallbacksOf(r) = {} /\ pc = "except" /\ r = Len(runs)
                \/ \E f \in FallbacksOf(r) :
                    /\ f > i
                    /\ IF calls[f].outcome.exit
                       THEN /\ pc = "done"
                            /\ exit_code = calls[f].outcome.code
                            /\ runs[r].outcome = "exited"
                            /\ runs[r].code = calls[f].outcome.code
                       ELSE \/ runs[r].outcome = "ok"
                            \/ pc = "finish" /\ r = Len(runs)

\* a main stage exits with 2, the fallback exits with 1, the command ends with 1
C1_Witness ==
    \E i, f \in CallIds :
        /\ calls[i].run = calls[f].run
        /\ calls[i].stage = "main" /\ calls[i].outcome = Exited(2)
        /\ calls[f].stage = "fallback" /\ calls[f].outcome = Exited(1)
        /\ pc = "done" /\ exit_code = 1

\* C2: with no on-failure action configured, a pre-, main- or post-stage run
\* that exits non-zero is the last engine invocation, and its status leaves
\* run_workflow unchanged and becomes the command's exit status.
C2_FailurePropagatesUnchanged ==
    \A i \in CallIds :
        LET r == calls[i].run
            code == calls[i].outcome.code
        IN  (StageFailure(i) /\ ~Configured(r)) =>
                /\ i = Len(calls)
                /\ r = Len(runs)
                /\ \/ pc = "except" /\ rw.code = code
                   \/ /\ pc = "done" /\ exit_code = code
                      /\ runs[r].outcome = "exited" /\ runs[r].code = code

\* a post-stage exits with 2 and the command ends with 2
C2_Witness ==
    /\ calls # <<>>
    /\ calls[Len(calls)].stage = "post"
    /\ calls[Len(calls)].outcome = Exited(2)
    /\ ~Configured(calls[Len(calls)].run)
    /\ pc = "done" /\ exit_code = 2

\* C3: a run invokes the fallback at most once, and a fallback run that
\* exits is the last engine invocation: its status ends the command.
C3_FallbackAtMostOnce ==
    \A r \in RunIds :
        /\ Cardinality(FallbacksOf(r)) <= 1
        /\ \A f \in FallbacksOf(r) :
            calls[f].outcome.exit =>
                /\ f = Len(calls)
                /\ pc = "done"
                /\ exit_code = calls[f].outcome.code

\* the fallback of a failed pre-stage exits with 2 and the command ends with 2
C3_Witness ==
    \E i, f \in CallIds :
        /\ calls[i].run = calls[f].run
        /\ calls[i].stage = "pre" /\ calls[i].outcome = Exited(1)
        /\ calls[f].stage = "fallback" /\ calls[f].outcome = Exited(2)
        /\ f = Len(calls) /\ pc = "done" /\ exit_code = 2

\* C4: a run whose configuration has with-dependencies without an action, or
\* a skip list with an action, ends in the validation error and the command
\* with it, and no engine invocation is made for that run.
C4_InvalidFlagsRunNothing ==
    \A r \in RunIds :
        LET c == runs[r].config
            given == c.action \notin {None, ""}
        IN  ((c.with_dependencies /\ ~given) \/ (c.skip # <<>> /\ given)) =>
                /\ runs[r].outcome = "validation"
                /\ CallsOf(r) = {}
                /\ pc = "done"
                /\ exit_code # 0

\* a skip list with an action is rejected although an on-failure action and
\* a pre-workflow are configured
C4_Witness ==
    \E r \in RunIds :
        /\ runs[r].config.skip # <<>>
        /\ runs[r].config.action = "build"
        /\ runs[r].config.on_failure = "cleanup"
        /\ env.pre_wfile = PreWfile
        /\ Loads(PreWfile)
        /\ runs[r].outcome = "validation"

\* C5: when a run ends in a validation error, no engine invocation has been
\* made before it in the whole command.
C5_ValidationBeforeAnyExecution ==
    \A r \in RunIds : runs[r].outcome = "validation" => calls = <<>>

\* the parameters of the command line, and the fields run_workflow is given
BaseConfig == make_context(argv).params
RunFields == DOMAIN Defaults \ {"quiet", "debug", "log_file"}
\* every run before the last has returned
EarlierRunsCompleted == \A r \in RunIds : r < Len(runs) => runs[r].outcome = "ok"
CallsGroupedByRun == \A i, j \in CallIds : i < j => calls[i].run <= calls[j].run
AllRunsCompleted == pc = "done" /\ \A r \in RunIds : runs[r].outcome = "ok"

\* C6: in CI mode with directives, the runs are the directives of the scanned
\* message from left to right, one run per directive, and every engine
\* invocation of a run comes after the previous run has completed.
C6_DirectivesInOrder ==
    mode = "directives" =>
        /\ Directives(instances.list) = ScannedMessage(repo.head)
        /\ Len(runs) <= Len(instances.list)
        /\ \A r \in RunIds :
            LET params == get_args(instances.list[r]).params
            IN  /\ DOMAIN runs[r].config = RunFields
                /\ \A k \in RunFields : runs[r].config[k] = params[k]
        /\ EarlierRunsCompleted
        /\ CallsGroupedByRun
        /\ \A i \in CallIds : calls[i].run \in RunIds
        /\ (AllRunsCompleted /\ todo = <<>>) => Len(runs) = Len(instances.list)

\* two different directives have run in the message's order, the first with
\* a fallback and the second with a post-stage, and the command has returned
C6_Witness ==
    /\ mode = "directives"
    /\ Len(runs) = 2 /\ Len(instances.list) = 2
    /\ instances.list[1] # instances.list[2]
    /\ AllRunsCompleted
    /\ \E i, j \in CallIds :
        /\ calls[i].run = 1 /\ calls[i].stage = "fallback"
        /\ calls[j].run = 2 /\ calls[j].stage = "post"

\* C7: in CI mode with directives, every parameter the directive's payload
\* leaves at its default has, in the run, the value of the command line.
C7_UnspecifiedFieldsKeepBase ==
    mode = "directives" =>
        \A r \in RunIds : \A k \in RunFields :
            get_args(instances.list[r]).params[k] = Defaults[k]
                => runs[r].config[k] = BaseConfig[k]

\* C8: in CI mode the recursive branch is taken exactly when there is no head
\* commit or the scanned message lacks the marker.
C8_RecursiveOnlyWithoutMarker ==
    (pc # "cli" /\ env.CI) =>
        (mode = "recursive" <=>
            \/ ~repo.head.present
            \/ ~Contains(ScannedMessage(repo.head), Marker))

\* C9: in recursive mode the runs are the discovered files in discovery
\* order, one run per file, and each run is given the command line's
\* parameters with only wfile replaced by its file.
C9_RecursiveRunsShareBase ==
    mode = "recursive" =>
        /\ Len(runs) <= Len(repo.found)
        /\ LET base == BaseConfig
           IN  \A r \in RunIds :
                /\ DOMAIN runs[r].config = RunFields
                /\ \A k \in RunFields :
                    runs[r].config[k] =
                        IF k = "wfile" THEN repo.found[r] ELSE base[k]
        /\ EarlierRunsCompleted
        /\ CallsGroupedByRun
        /\ (AllRunsCompleted /\ files = <<>> /\ pc = "done")
                => Len(runs) = Len(repo.found)

\* the first file's run replaced its action and cleared its skip list for the
\* fallback; the second file's run has the command line's skip list
C9_Witness ==
    /\ mode = "recursive"
    /\ Len(runs) = 2
    /\ \E i \in CallIds :
        /\ calls[i].run = 1 /\ calls[i].stage = "fallback"
        /\ calls[i].kwargs.skip = <<>> /\ calls[i].kwargs.action = "cleanup"
    /\ runs[2].config.skip = <<"lint">>
    /\ runs[2].config.action = None
    /\ runs[2].config.wfile = repo.found[2]
    /\ AllRunsCompleted

\* what scanning the message msg returns (lines 260-265)
ScanOf(msg) ==
    IF Contains(msg, Marker) THEN [none |-> FALSE, list |-> findall(msg)]
    ELSE NoInstances

\* C10 as stated: for a head commit with two parents, the second parent's
\* message is scanned, whatever the head commit's message is.
C10_TwoParentsScanSecondParent ==
    (pc # "cli" /\ repo.head.present /\ Len(repo.head.parents) = 2) =>
        instances = ScanOf(repo.head.parents[2])

\* C10 amended: for a head commit with two parents, the second parent's
\* message is scanned when the head commit's message contains "Merge", and
\* the head commit's own message otherwise.
C10_MergeMessageScansSecondParent ==
    (pc # "cli" /\ repo.head.present /\ Len(repo.head.parents) = 2) =>
        instances = ScanOf(IF Contains(repo.head.message, MergeTok)
                           THEN repo.head.parents[2]
                           ELSE repo.head.message)

\* a merge commit whose own message carries the marker: the directive found
\* is the second parent's
C10_Witness ==
    /\ pc # "cli"
    /\ Contains(repo.head.message, MergeTok)
    /\ Contains(repo.head.message, Marker)
    /\ Len(repo.head.parents) = 2
    /\ repo.head.parents[2] = <<Marker, "x", Close>>
    /\ instances = [none |-> FALSE, list |-> << <<"x">> >>]

\* the pre-workflow is configured and does not load
PreLoadFails == Truthy(env.pre_wfile) /\ ~Loads(env.pre_wfile)
\* the post-workflow is configured and does not load
PostLoadFails == Truthy(env.post_wfile) /\ ~Loads(env.post_wfile)
\* the engine invocations of run r made after invocation i
LaterCallsOf(r, i) == {j \in CallsOf(r) : j > i}

\* C11: when the pre-workflow's run exits, or the pre-workflow does not
\* load, neither the main stage nor the post-stage of that run is reached:
\* the only engine invocation of the run that may follow is the fallback.
C11_PreFailureSkipsMain ==
    /\ \A i \in CallIds :
            (calls[i].stage = "pre" /\ calls[i].outcome.exit) =>
                \A j \in LaterCallsOf(calls[i].run, i) : calls[j].stage = "fallback"
    /\ PreLoadFails => \A j \in CallIds : calls[j].stage = "fallback"

\* a pre-stage exits with 1, the fallback returns, the run completes with
\* these two engine invocations only, for a run with a target action
C11_Witness ==
    \E i, f \in CallIds :
        /\ calls[i].stage = "pre" /\ calls[i].outcome = Exited(1)
        /\ calls[i].kwargs.action = "build"
        /\ calls[f].stage = "fallback" /\ calls[f].outcome = Returned
        /\ calls[f].run = calls[i].run
        /\ CallsOf(calls[i].run) = {i, f}
        /\ runs[calls[i].run].outcome = "ok"

\* C12: a post-stage invocation is preceded, in its run, by a main-stage
\* invocation that returned, and by no invocation that exited and no
\* fallback; with a pre-workflow configured, by a pre-stage that returned.
C12_PostOnlyAfterMainSuccess ==
    \A p \in CallIds :
        calls[p].stage = "post" =>
            LET before == {j \in CallsOf(calls[p].run) : j < p}
            IN  /\ \E m \in before :
                    calls[m].stage = "main" /\ calls[m].outcome = Returned
                /\ \A j \in before :
                    calls[j].outcome = Returned /\ calls[j].stage # "fallback"
                /\ ~PreLoadFails
                /\ Truthy(env.pre_wfile) =>
                        \E q \in before : calls[q].stage = "pre"

\* pre-, main- and post-stage of one run all returned, in this order
C12_Witness ==
    \E q, m, p \in CallIds :
        /\ q < m /\ m < p
        /\ calls[q].run = calls[p].run /\ calls[m].run = calls[p].run
        /\ calls[q].stage = "pre" /\ calls[m].stage = "main"
        /\ calls[p].stage = "post" /\ calls[p].outcome = Returned
        /\ runs[calls[p].run].outcome = "ok"

\* the flags run_workflow hands on to every engine invocation unchanged
PassedFlags ==
    {"dry_run", "parallel", "reuse", "runtime", "skip_clone", "skip_pull",
     "workspace"}

\* C13: the engine invocations of the pre- and the post-workflow are given
\* the run's flags and no target action.
C13_PrePostWithoutAction ==
    \A i \in CallIds :
        calls[i].stage \in {"pre", "post"} =>
            /\ calls[i].kwargs.action \in {None, ""}
            /\ \A k \in PassedFlags :
                    calls[i].kwargs[k] = runs[calls[i].run].config[k]

\* the runs whose main workflow loaded, which are the runs that reached
\* line 201
LoadedRuns == {r \in RunIds : Loads(find_default_wfile(runs[r].config.wfile))}
Max(S) == CHOOSE x \in S : \A y \in S : y <= x

\* C14 as stated: the interrupt record's parallel field is written exactly
\* once in a command.
C14_InterruptWrittenOnce ==
    /\ interrupt.writes <= 1
    /\ pc = "done" => interrupt.writes = 1

\* C14 amended: the field is written once by every run_workflow call whose
\* main workflow loads, and between writes it holds the parallel flag of
\* the last such run.
C14_InterruptWrittenPerRun ==
    /\ interrupt.writes = Cardinality(LoadedRuns)
    /\ LoadedRuns # {} =>
            interrupt.parallel = runs[Max(LoadedRuns)].config.parallel
    /\ LoadedRuns = {} => interrupt.parallel = FALSE

\* the second directive's run overwrote the value the first run stored
C14_Witness ==
    /\ Len(runs) = 2
    /\ interrupt.writes = 2
    /\ ~runs[1].config.parallel
    /\ runs[2].config.parallel
    /\ interrupt.parallel

\* C15: the level set by prepare_workflow_execution is DEBUG when debug is
\* set, whatever quiet is, INFO when only quiet is set, and ACTION_INFO when
\* neither is set; it is set before any run.
C15_VerbosityResolution ==
    /\ runs # <<>> => level # "NOTSET"
    /\ (level # "NOTSET" /\ pc # "prepare") =>
            /\ (kwargs.debug /\ kwargs.quiet) => level = "DEBUG"
            /\ (kwargs.debug /\ ~kwargs.quiet) => level = "DEBUG"
            /\ (~kwargs.debug /\ kwargs.quiet) => level = "INFO"
            /\ (~kwargs.debug /\ ~kwargs.quiet) => level = "ACTION_INFO"

\* debug and quiet are both set and the level is DEBUG
C15_Witness ==
    /\ kwargs.debug /\ kwargs.quiet
    /\ level = "DEBUG"
    /\ runs # <<>>

\* C16: the fallback invocation is made on the main workflow's runner with
\* the on-failure action as its target, an empty skip list, no dependency
\* expansion, and the run's value for every other flag.
C16_FallbackTargetsOnlyOnFailure ==
    \A f \in CallIds :
        calls[f].stage = "fallback" =>
            LET c == runs[calls[f].run].config
            IN  /\ calls[f].kwargs.action = c.on_failure
                /\ calls[f].kwargs.skip = <<>>
                /\ ~calls[f].kwargs.with_dependencies
                /\ calls[f].runner = find_default_wfile(c.wfile)
                /\ \A k \in PassedFlags : calls[f].kwargs[k] = c[k]

\* run r met a fatal validation failure: its flags or main workflow were
\* rejected, or its pre-workflow did not load, or its post-workflow did not
\* load after the main stage returned
ValidationFailure(r) ==
    \/ runs[r].outcome = "validation"
    \/ PreLoadFails
    \/ /\ PostLoadFails
       /\ \E m \in CallsOf(r) : calls[m].stage = "main" /\ calls[m].outcome = Returned

\* C17: a run with an on-failure action that meets a validation failure
\* makes no fallback invocation.
C17_ValidationNeverRecovered ==
    \A r \in RunIds :
        (Configured(r) /\ ValidationFailure(r)) => FallbacksOf(r) = {}

\* C18: parse_commit_message returns None without a head commit; otherwise
\* it scans the second parent's message when the head commit's message
\* contains "Merge" and the head commit has exactly two parents, and the
\* head commit's own message in every other case.
C18_SecondParentIffMergeWithTwoParents ==
    pc # "cli" =>
        instances =
            IF ~repo.head.present THEN NoInstances
            ELSE IF Contains(repo.head.message, MergeTok)
                        /\ Len(repo.head.parents) = 2
            THEN ScanOf(repo.head.parents[2])
            ELSE ScanOf(repo.head.message)

\* a head commit with "Merge" in its message and three parents: the
\* directive found is its own, not the second parent's
C18_Witness ==
    /\ pc # "cli"
    /\ repo.head.message = <<Marker, MergeTok, Close>>
    /\ Len(repo.head.parents) = 3
    /\ repo.head.parents[2] = <<Marker, "x", Close>>
    /\ instances = [none |-> FALSE, list |-> << <<MergeTok>> >>]

\* the RunConfig of a directive, from the command line's parameters and the
\* directive's payload alone
DirectiveConfig(base, payload) ==
    LET params == get_args(payload).params
    IN  [k \in RunFields |-> IF k \in DOMAIN params THEN params[k] ELSE base[k]]
\* what run_workflow hands to the engine for the pre-, main- and post-stage
EngineKwargs(config) == [k \in DOMAIN config \ {"on_failure", "wfile"} |-> config[k]]

\* C19: the RunConfig executed for directive r, and what the engine is given
\* for its stages, are determined by the command line and directive r's own
\* payload; nothing set by or changed during an earlier directive's run
\* is in it.
C19_DirectivesIndependent ==
    mode = "directives" =>
        /\ LET base == BaseConfig
           IN  \A r \in RunIds :
                runs[r].config = DirectiveConfig(base, instances.list[r])
        /\ \A i \in CallIds :
                calls[i].stage # "fallback" =>
                    calls[i].kwargs = EngineKwargs(runs[calls[i].run].config)

\* the first directive set on-failure and parallel and its run replaced its
\* action for the fallback; the second directive's run has none of these
C19_Witness ==
    /\ mode = "directives"
    /\ Len(runs) = 2
    /\ runs[1].config.on_failure = "cleanup" /\ runs[1].config.parallel
    /\ \E f \in FallbacksOf(1) : calls[f].kwargs.action = "cleanup"
    /\ runs[2].config.on_failure = None /\ ~runs[2].config.parallel
    /\ \E m \in CallsOf(2) :
            /\ calls[m].stage = "main"
            /\ calls[m].kwargs.action = "build"
            /\ ~calls[m].kwargs.parallel

\* the plan has an entry after run r
HasNext(r) ==
    \/ mode = "recursive" /\ r < Len(repo.found)
    \/ /\ mode = "directives"
       /\ r < Len(instances.list)
       /\ get_args(instances.list[r + 1]).ok

\* C20: a run that ends in a validation error or in an exit that was not
\* recovered is the last run of the command and no engine invocation is made
\* for a later plan entry; after a fallback that returned, the command does
\* not end before the next plan entry's run has started.
C20_UnrecoveredFailureEndsPlan ==
    /\ \A r \in RunIds :
            runs[r].outcome \in {"validation", "exited"} =>
                /\ r = Len(runs)
                /\ pc = "done"
                /\ exit_code = runs[r].code
                /\ \A i \in CallIds : calls[i].run <= r
    /\ \A f \in CallIds :
            (calls[f].stage = "fallback" /\ calls[f].outcome = Returned) =>
                ((pc = "done" /\ HasNext(calls[f].run))
                    => Len(runs) > calls[f].run)

\* the first of two directives fails, its fallback exits with 1, and the
\* command ends with 1 without running the second directive
C20_Witness ==
    /\ mode = "directives"
    /\ Len(instances.list) = 2
    /\ HasNext(1)
    /\ Len(runs) = 1
    /\ \E f \in FallbacksOf(1) : calls[f].outcome = Exited(1)
    /\ runs[1].outcome = "exited"
    /\ pc = "done" /\ exit_code = 1

====
